---- MODULE Spec2Model ----
(***************************************************************************)
(* A model of app.py: the per-host rate limiter, the robots checker, the   *)
(* site permission evaluator, the content extractor and the /scrape        *)
(* orchestrator, with the network, the language model and the store as     *)
(* nondeterministic collaborators.                                         *)
(***************************************************************************)
EXTENDS Integers, Sequences, FiniteSets, TLC

VARIABLES
    rate_limits,   \* app.py:55  host -> reference of its {'count','reset_time'} dict
    heap,          \* the dict objects rate_limits refers to
    now,           \* the wall clock read by datetime.now(), in seconds
    thr,           \* per server thread: its position inside check_rate_limit
    specWin,       \* history: per host the start of the current window, -1 unseen
    specCalls,     \* history: per host the calls made in the current window
    accepted,      \* history: per host the calls of the current window answered true
    resetFrom,     \* history: per host the window its latest reset ended: 0 none,
                   \* 1 one with calls left, 2 an exhausted one
    lastCall,      \* history: the latest completed check_rate_limit call
    inp,           \* the call under way: the operation, its URL, the network's answers;
                   \* for /scrape, per server thread its run under way
    out,           \* what that call returned, with the requests it issued
    store,         \* the rows of the store's entities table
    hist           \* history: the /scrape runs so far, each with its request, the
                   \* collaborator calls it made and its response

rlVars == <<rate_limits, heap, now, thr, specWin, specCalls, accepted, resetFrom,
            lastCall>>
vars == <<rlVars, inp, out, store, hist>>

----------------------------------------------------------------------------
(* Bounds of the model *)

MaxTime == 92        \* the clock stops advancing here
MaxCalls == 62       \* deepest count one host is driven to
ShallowCalls == 2    \* count the other hosts are driven to meanwhile
MaxObjs == 4         \* dict objects alive at once (hosts + threads)
MaxThreadCalls == 2  \* calls one server thread makes when threads overlap
MaxRuns == 2         \* /scrape requests the server threads are given

----------------------------------------------------------------------------
(* Program constants *)

WindowSeconds == 60  \* timedelta(minutes=1)
RateLimit == 60      \* 60 requests per minute per domain

----------------------------------------------------------------------------
(* URLs.  urlparse(url) splits a URL into scheme, netloc and path. *)

Hosts == {"a.example", "b.example"}

Urls == { [scheme |-> "https", netloc |-> "a.example", path |-> "/x"],
          [scheme |-> "https", netloc |-> "a.example", path |-> "/y"],
          [scheme |-> "https", netloc |-> "b.example", path |-> "/x"] }

urlparse_netloc_shared(url) == "a.example"
urlparse_netloc(url) == url.netloc

----------------------------------------------------------------------------
(* Rate limiter: check_rate_limit, app.py:55-68 *)

NoObj == 0
ObjIds == 1..MaxObjs
NoDict == [count |-> -1, reset_time |-> -1]
Threads == {"t1", "t2"}
IdleThread == [pc |-> "idle", host |-> "", now_t |-> -1, d |-> NoObj, v |-> -1, n |-> 0]

\* the default factory of line 55, and the literal of line 64
NewWindow(t) == [count |-> 0, reset_time |-> t]

\* line 63: now - reset_time > timedelta(minutes=1)
Expired_ge(now_t, reset_time) == now_t - reset_time >= WindowSeconds
Expired(now_t, reset_time) == now_t - reset_time > WindowSeconds

\* line 68: count <= 60
WithinLimit_lt(count) == count < RateLimit
WithinLimit(count) == count <= RateLimit

\* objects some name still refers to; the others are reclaimed
Referenced(rl, th) == {rl[h] : h \in Hosts} \cup {th[t].d : t \in Threads}
Collect(rl, hp, th) ==
    [o \in ObjIds |-> IF o \in Referenced(rl, th) THEN hp[o] ELSE NoDict]
Fresh(rl, th) ==
    CHOOSE o \in ObjIds : o \notin Referenced(rl, th)
                          /\ \A p \in ObjIds : p \notin Referenced(rl, th) => o <= p

Count(rl, hp, h) == IF rl[h] = NoObj THEN 0 ELSE hp[rl[h]].count

\* One whole call of check_rate_limit for host h at clock t, no other thread
\* running: the resulting rate_limits, heap and return value.
RateLimitCall(rl, hp, h, t) ==
    LET idle == [x \in Threads |-> IdleThread]
        \* line 63, rate_limits[domain]: a missing key is created by the factory
        o1  == IF rl[h] = NoObj THEN Fresh(rl, idle) ELSE rl[h]
        hp1 == IF rl[h] = NoObj THEN [hp EXCEPT ![o1] = NewWindow(t)] ELSE hp
        rl1 == [rl EXCEPT ![h] = o1]
        \* lines 63-64: the entry is replaced by a new dict
        rl2 == IF Expired(t, hp1[o1].reset_time)
                 THEN [rl1 EXCEPT ![h] = Fresh([rl1 EXCEPT ![h] = NoObj], idle)]
                 ELSE rl1
        hp2 == IF Expired(t, hp1[o1].reset_time)
                 THEN Collect(rl2, [hp1 EXCEPT ![rl2[h]] = NewWindow(t)], idle)
                 ELSE hp1
        \* line 67
        hp3 == [hp2 EXCEPT ![rl2[h]].count = @ + 1]
    IN  [rl |-> rl2, hp |-> hp3,
         \* line 68
         ret |-> WithinLimit(hp3[rl2[h]].count)]

\* History of what the calls should amount to: a window starts at the first
\* call of a host and at every call made more than 60 seconds after the
\* window's start.
StartsWindow(h, t) == specWin[h] = -1 \/ t - specWin[h] > 60
Elapsed(h, t) == IF specWin[h] = -1 THEN -1 ELSE t - specWin[h]
ObserveStart(h, t) ==
    /\ specWin' = [specWin EXCEPT ![h] = IF StartsWindow(h, t) THEN t ELSE @]
    /\ specCalls' = [specCalls EXCEPT ![h] = IF StartsWindow(h, t) THEN 1 ELSE @ + 1]
    /\ resetFrom' = [resetFrom EXCEPT
                       ![h] = IF Elapsed(h, t) <= 60 THEN @
                              ELSE IF specCalls[h] < 60 THEN 1 ELSE 2]
ObserveReturn(h, t, ret, fresh, elapsed, before) ==
    /\ accepted' = [accepted EXCEPT
                      ![h] = (IF fresh THEN 0 ELSE @) + (IF ret THEN 1 ELSE 0)]
    /\ lastCall' = [host |-> h, ret |-> ret, at |-> t,
                    elapsed |-> elapsed, before |-> before]

\* the call budget of the model: one host at a time is driven past ShallowCalls
WithinBudget(h) ==
    /\ Count(rate_limits, heap, h) < MaxCalls
    /\ \/ Count(rate_limits, heap, h) < ShallowCalls
       \/ \A g \in Hosts \ {h} : Count(rate_limits, heap, g) <= ShallowCalls

check_rate_limit(url) ==
    LET h == urlparse_netloc(url)
        r == RateLimitCall(rate_limits, heap, h, now)
    IN  /\ WithinBudget(h)
        /\ rate_limits' = r.rl
        /\ heap' = r.hp
        /\ ObserveStart(h, now)
        /\ ObserveReturn(h, now, r.ret, StartsWindow(h, now),
                         Elapsed(h, now), specCalls[h])
        /\ UNCHANGED <<now, thr, inp, out, store, hist>>

\* time passes between requests
Ticks == {30, 31}
Tick(d) ==
    /\ now + d <= MaxTime
    /\ now' = now + d
    /\ UNCHANGED <<rate_limits, heap, thr, specWin, specCalls, accepted, resetFrom,
                   lastCall, inp, out, store, hist>>

NoCall == [host |-> "", ret |-> FALSE, at |-> -1, elapsed |-> -1, before |-> 0]

InitRL ==
    /\ rate_limits = [h \in Hosts |-> NoObj]
    /\ heap = [o \in ObjIds |-> NoDict]
    /\ now = 0
    /\ thr = [t \in Threads |-> IdleThread]
    /\ specWin = [h \in Hosts |-> -1]
    /\ specCalls = [h \in Hosts |-> 0]
    /\ accepted = [h \in Hosts |-> 0]
    /\ resetFrom = [h \in Hosts |-> 0]
    /\ lastCall = NoCall
    /\ inp = [op |-> "none"]
    /\ out = [op |-> "none"]
    /\ store = {}
    /\ hist = <<>>

NextRL ==
    \/ \E url \in Urls : check_rate_limit(url)
    \/ \E d \in Ticks : Tick(d)

SpecRL == InitRL /\ [][NextRL]_vars

----------------------------------------------------------------------------
(* check_rate_limit as concurrent server threads run it (waitress, or the  *)
(* threaded development server, app.py:468-481): one step per access to    *)
(* the shared rate_limits, with no lock anywhere in lines 57-68.           *)

Goto(t, pc) == [thr EXCEPT ![t].pc = pc]
HistoryUnchanged ==
    UNCHANGED <<specWin, specCalls, accepted, resetFrom, lastCall, inp, out, store, hist>>

\* lines 59-60: domain = urlparse(url).netloc; now = datetime.now(); n is the
\* thread's call count from here on
EnterRateLimit(t, url, n) ==
    LET h == urlparse_netloc(url)
    IN  /\ thr' = [thr EXCEPT ![t] = [pc |-> "L63", host |-> h, now_t |-> now,
                                      d |-> NoObj, v |-> -1, n |-> n]]
        /\ ObserveStart(h, now)
        /\ accepted' = [accepted EXCEPT ![h] = IF StartsWindow(h, now) THEN 0 ELSE @]

rl_begin(t, url) ==
    /\ thr[t].pc = "idle"
    /\ thr[t].n < MaxThreadCalls
    /\ EnterRateLimit(t, url, thr[t].n + 1)
    /\ UNCHANGED <<rate_limits, heap, now, lastCall, inp, out, store, hist>>

\* line 63: rate_limits[domain]['reset_time'] is looked up and compared; a
\* missing key makes the defaultdict call the factory of line 55
rl_lookup(t) ==
    LET h == thr[t].host
    IN  /\ thr[t].pc = "L63"
        /\ thr' = Goto(t, IF rate_limits[h] = NoObj THEN "L55"
                          ELSE IF Expired(thr[t].now_t, heap[rate_limits[h]].reset_time)
                               THEN "L64" ELSE "L67a")
        /\ UNCHANGED <<rate_limits, heap, now>>
        /\ HistoryUnchanged

\* line 55: the factory builds {'count': 0, 'reset_time': datetime.now()} and
\* the defaultdict stores it under the key, whatever is there by then
rl_factory(t) ==
    LET h  == thr[t].host
        rl == [rate_limits EXCEPT ![h] = Fresh([rate_limits EXCEPT ![h] = NoObj], thr)]
    IN  /\ thr[t].pc = "L55"
        /\ rate_limits' = rl
        /\ heap' = Collect(rl, [heap EXCEPT ![rl[h]] = NewWindow(now)], thr)
        /\ thr' = Goto(t, IF Expired(thr[t].now_t, now) THEN "L64" ELSE "L67a")
        /\ UNCHANGED now
        /\ HistoryUnchanged

\* line 64: rate_limits[domain] = {'count': 0, 'reset_time': now}
rl_reset(t) ==
    LET h  == thr[t].host
        rl == [rate_limits EXCEPT ![h] = Fresh([rate_limits EXCEPT ![h] = NoObj], thr)]
    IN  /\ thr[t].pc = "L64"
        /\ rate_limits' = rl
        /\ heap' = Collect(rl, [heap EXCEPT ![rl[h]] = NewWindow(thr[t].now_t)], thr)
        /\ thr' = Goto(t, "L67a")
        /\ UNCHANGED now
        /\ HistoryUnchanged

\* line 67, rate_limits[domain]['count'] += 1: the dict is fetched,
rl_fetch(t) ==
    /\ thr[t].pc = "L67a"
    /\ thr' = [thr EXCEPT ![t].pc = "L67b", ![t].d = rate_limits[thr[t].host]]
    /\ UNCHANGED <<rate_limits, heap, now>>
    /\ HistoryUnchanged

\* its count is read,
rl_read(t) ==
    /\ thr[t].pc = "L67b"
    /\ thr' = [thr EXCEPT ![t].pc = "L67c", ![t].v = heap[thr[t].d].count]
    /\ UNCHANGED <<rate_limits, heap, now>>
    /\ HistoryUnchanged

\* and the count plus one is written back into that dict
rl_write(t) ==
    LET th == [thr EXCEPT ![t].pc = "L68", ![t].d = NoObj, ![t].v = -1]
    IN  /\ thr[t].pc = "L67c"
        /\ thr' = th
        /\ heap' = Collect(rate_limits,
                           [heap EXCEPT ![thr[t].d].count = thr[t].v + 1], th)
        /\ UNCHANGED <<rate_limits, now>>
        /\ HistoryUnchanged

\* line 68: return rate_limits[domain]['count'] <= 60
RateLimitResult(t) == WithinLimit(heap[rate_limits[thr[t].host]].count)
LeaveRateLimit(t) ==
    LET h   == thr[t].host
        ret == RateLimitResult(t)
    IN  /\ thr[t].pc = "L68"
        /\ thr' = [thr EXCEPT ![t] = [IdleThread EXCEPT !.n = thr[t].n]]
        /\ accepted' = [accepted EXCEPT ![h] = @ + (IF ret THEN 1 ELSE 0)]
        /\ lastCall' = [host |-> h, ret |-> ret, at |-> thr[t].now_t,
                        elapsed |-> -1, before |-> 0]
        /\ UNCHANGED <<rate_limits, heap, now, specWin, specCalls, resetFrom>>

rl_return(t) ==
    /\ LeaveRateLimit(t)
    /\ UNCHANGED <<inp, out, store, hist>>

\* The threads start on a state the server can be in: host a.example never
\* seen, or seen since second 0 with the given count, at the given clock.
ConcStarts == { [count |-> 0, now |-> 0], [count |-> 59, now |-> 0],
                [count |-> 1, now |-> 61], [count |-> 59, now |-> 61] }

InitConc ==
    \E s \in ConcStarts :
        /\ rate_limits = [h \in Hosts |-> IF h = "a.example" /\ s.count > 0
                                            THEN 1 ELSE NoObj]
        /\ heap = [o \in ObjIds |-> IF o = 1 /\ s.count > 0
                                      THEN [count |-> s.count, reset_time |-> 0]
                                      ELSE NoDict]
        /\ now = s.now
        /\ thr = [t \in Threads |-> IdleThread]
        /\ specWin = [h \in Hosts |-> IF h = "a.example" /\ s.count > 0 THEN 0 ELSE -1]
        /\ specCalls = [h \in Hosts |-> IF h = "a.example" THEN s.count ELSE 0]
        /\ accepted = [h \in Hosts |-> IF h = "a.example" THEN s.count ELSE 0]
        /\ resetFrom = [h \in Hosts |-> 0]
        /\ lastCall = NoCall
        /\ inp = [op |-> "none"]
        /\ out = [op |-> "none"]
        /\ store = {}
        /\ hist = <<>>

NextConc ==
    \E t \in Threads :
        \/ \E url \in Urls : rl_begin(t, url)
        \/ rl_lookup(t)
        \/ rl_factory(t)
        \/ rl_reset(t)
        \/ rl_fetch(t)
        \/ rl_read(t)
        \/ rl_write(t)
        \/ rl_return(t)

SpecConc == InitConc /\ [][NextConc]_vars

----------------------------------------------------------------------------
(* Text.  A Python str is modelled run-length encoded: a sequence of runs   *)
(* [c |-> character, n |-> repetitions], adjacent runs of different         *)
(* characters, so that the 100, 50 and 12000 character thresholds of the    *)
(* extractor are reached with their real values.                            *)

Run(c, n) == [c |-> c, n |-> n]
Str(c, n) == IF n = 0 THEN <<>> ELSE <<Run(c, n)>>
IsSpace(c) == c \in {" ", "\n", "\t"}

\* len(s)
RECURSIVE StrLen(_)
StrLen(s) == IF s = <<>> THEN 0 ELSE Head(s).n + StrLen(Tail(s))

\* s + t
Cat(s, t) ==
    IF s = <<>> THEN t
    ELSE IF t = <<>> THEN s
    ELSE IF s[Len(s)].c = Head(t).c
         THEN SubSeq(s, 1, Len(s) - 1)
              \o <<Run(Head(t).c, s[Len(s)].n + Head(t).n)>> \o Tail(t)
         ELSE s \o t

\* sep.join(parts)
RECURSIVE Join(_, _)
Join(parts, sep) ==
    IF parts = <<>> THEN <<>>
    ELSE IF Tail(parts) = <<>> THEN Head(parts)
    ELSE Cat(Cat(Head(parts), sep), Join(Tail(parts), sep))

\* s.strip()
RECURSIVE LStrip(_)
LStrip(s) == IF s # <<>> /\ IsSpace(Head(s).c) THEN LStrip(Tail(s)) ELSE s
RECURSIVE RStrip(_)
RStrip(s) ==
    IF s # <<>> /\ IsSpace(s[Len(s)].c) THEN RStrip(SubSeq(s, 1, Len(s) - 1)) ELSE s
Strip(s) == RStrip(LStrip(s))

\* re.sub(r'\s+', ' ', s): every maximal run of whitespace becomes one space
RECURSIVE CollapseSpace(_)
CollapseSpace(s) ==
    IF s = <<>> THEN <<>>
    ELSE IF IsSpace(Head(s).c)
         THEN Cat(Str(" ", 1), CollapseSpace(LStrip(s)))
         ELSE <<Head(s)>> \o CollapseSpace(Tail(s))

\* re.sub(r'\n+', ' ', s): every maximal run of newlines becomes one space
RECURSIVE ReplaceNewlines(_)
ReplaceNewlines(s) ==
    IF s = <<>> THEN <<>>
    ELSE Cat(IF Head(s).c = "\n" THEN Str(" ", 1) ELSE <<Head(s)>>,
             ReplaceNewlines(Tail(s)))

\* s[:k]
Take_all(s, k) == s
RECURSIVE Take(_, _)
Take(s, k) ==
    IF s = <<>> \/ k <= 0 THEN <<>>
    ELSE IF Head(s).n >= k THEN Str(Head(s).c, k)
    ELSE <<Head(s)>> \o Take(Tail(s), k - Head(s).n)

----------------------------------------------------------------------------
(* Parsed HTML.  A node is a text node or an element with an id, classes,   *)
(* a role and children; BeautifulSoup's root is an element "[document]".    *)

TextNode(s) == [tag |-> "#text", id |-> "", class |-> {}, role |-> "",
                kids |-> <<>>, text |-> s]
El(tag, at, kids) == [tag |-> tag, id |-> at.id, class |-> at.class, role |-> at.role,
                      kids |-> kids, text |-> <<>>]
Plain == [id |-> "", class |-> {}, role |-> ""]
Soup(kids) == El("[document]", Plain, kids)

RECURSIVE Flatten(_)
Flatten(ss) == IF ss = <<>> THEN <<>> ELSE Head(ss) \o Flatten(Tail(ss))

NonEmpty(s) == s # <<>>

\* element.decompose() for every script, style, iframe and noscript (line 170)
StrippedTags == {"script", "style", "iframe", "noscript"}
RECURSIVE Decompose(_)
Decompose(node) ==
    LET keep(k) == k.tag \notin StrippedTags
        kept == SelectSeq(node.kids, keep)
    IN  [node EXCEPT !.kids = [i \in 1..Len(kept) |-> Decompose(kept[i])]]

\* the strings below a node, in document order
RECURSIVE AllStrings(_)
AllStrings(node) ==
    IF node.tag = "#text" THEN <<node.text>>
    ELSE Flatten([i \in 1..Len(node.kids) |-> AllStrings(node.kids[i])])

\* node.get_text(separator=sep, strip=True): every string stripped, the
\* empty ones dropped, the rest joined by sep
get_text(node, sep) ==
    LET raw == AllStrings(node)
        stripped == [i \in 1..Len(raw) |-> Strip(raw[i])]
    IN  Join(SelectSeq(stripped, NonEmpty), sep)

\* the elements below a node, in document order
RECURSIVE Elements(_)
Elements(node) ==
    Flatten([i \in 1..Len(node.kids) |->
                IF node.kids[i].tag = "#text" THEN <<>>
                ELSE <<node.kids[i]>> \o Elements(node.kids[i])])

\* soup.find_all(tags)
find_all(soup, tags) ==
    LET hit(e) == e.tag \in tags IN SelectSeq(Elements(soup), hit)

\* lines 177-181
content_selectors ==
    << [kind |-> "id", name |-> "content"], [kind |-> "id", name |-> "main-content"],
       [kind |-> "class", name |-> "content"], [kind |-> "class", name |-> "main-content"],
       [kind |-> "tag", name |-> "article"], [kind |-> "tag", name |-> "main"],
       [kind |-> "role", name |-> "main"], [kind |-> "class", name |-> "post-content"],
       [kind |-> "class", name |-> "entry-content"],
       [kind |-> "class", name |-> "article-content"] >>

Matches(sel, e) ==
    CASE sel.kind = "id" -> e.id = sel.name
      [] sel.kind = "class" -> sel.name \in e.class
      [] sel.kind = "tag" -> e.tag = sel.name
      [] sel.kind = "role" -> e.role = sel.name

\* soup.select(selector)
select(soup, sel) ==
    LET hit(e) == Matches(sel, e) IN SelectSeq(Elements(soup), hit)

Space == Str(" ", 1)
SectionMin == 100      \* line 196
ParagraphMin == 50     \* line 204
DivMin == 100          \* line 212
SubstantialMin == 100  \* line 229
MaxText == 12000       \* line 230

TextsOf(els, sep) == [i \in 1..Len(els) |-> get_text(els[i], sep)]
LongerThan(n, texts) ==
    LET long(t) == NonEmpty(t) /\ StrLen(t) > n IN SelectSeq(texts, long)

\* Method 1, lines 183-189
StageA(soup) ==
    Flatten([k \in 1..Len(content_selectors) |->
                SelectSeq(TextsOf(select(soup, content_selectors[k]), Space), NonEmpty)])
\* Method 2, lines 193-197
StageB(soup) ==
    LongerThan(SectionMin, TextsOf(find_all(soup, {"article", "main", "section"}), Space))
\* Method 3, lines 201-205
StageC(soup) == LongerThan(ParagraphMin, TextsOf(find_all(soup, {"p"}), <<>>))
\* Method 4, lines 209-213
StageD(soup) == LongerThan(DivMin, TextsOf(find_all(soup, {"div"}), <<>>))
\* lines 217-219
StageE(soup) == SelectSeq(<<get_text(soup, Space)>>, NonEmpty)

\* lines 174-219: each method runs only while main_content is still empty
Cascade_all(soup) ==
    LET parts == StageA(soup) \o StageB(soup) \o StageC(soup) \o StageD(soup)
                 \o StageE(soup)
    IN  [stage |-> IF StageA(soup) # <<>> THEN "a"
                   ELSE IF StageB(soup) # <<>> THEN "b"
                   ELSE IF StageC(soup) # <<>> THEN "c"
                   ELSE IF StageD(soup) # <<>> THEN "d"
                   ELSE IF StageE(soup) # <<>> THEN "e" ELSE "none",
         parts |-> parts]
Cascade(soup) ==
    IF StageA(soup) # <<>> THEN [stage |-> "a", parts |-> StageA(soup)]
    ELSE IF StageB(soup) # <<>> THEN [stage |-> "b", parts |-> StageB(soup)]
    ELSE IF StageC(soup) # <<>> THEN [stage |-> "c", parts |-> StageC(soup)]
    ELSE IF StageD(soup) # <<>> THEN [stage |-> "d", parts |-> StageD(soup)]
    ELSE IF StageE(soup) # <<>> THEN [stage |-> "e", parts |-> StageE(soup)]
    ELSE [stage |-> "none", parts |-> <<>>]

\* lines 223-227
Clean(parts) == Strip(ReplaceNewlines(CollapseSpace(Join(parts, Space))))

\* line 229
Substantial_ge(text) == StrLen(text) >= SubstantialMin
Substantial(text) == StrLen(text) > SubstantialMin

None == <<>>
NoContent == <<"No substantial content found on page">>

\* lines 166-232: from the parsed page to (text, error)
ExtractFromSoup(doc) ==
    LET c == Cascade(Decompose(doc))
        text == Clean(c.parts)
    IN  IF c.parts # <<>> /\ Substantial(text)
          THEN [text |-> Take(text, MaxText), error |-> None, stage |-> c.stage,
                cleaned |-> text]
          ELSE [text |-> None, error |-> NoContent, stage |-> c.stage,
                cleaned |-> text]

----------------------------------------------------------------------------
(* The network.  A request either raises (connection error, timeout) or     *)
(* answers with a status, headers and a body.                               *)

NetError == [kind |-> "error", detail |-> "timed out"]
Raised(resp) == resp.kind = "error"

\* the paths robots.txt disallows for USER_AGENT once parsed
RobotRules == { {}, {"/"}, {"/x"} }
RobotsResps ==
    {NetError} \cup
    { [kind |-> "resp", status |-> st, rules |-> r] : st \in {200, 404}, r \in RobotRules }

\* rp.can_fetch(USER_AGENT, url), line 144
can_fetch(rules, url) == ~("/" \in rules \/ url.path \in rules)

SiteUrl(url, path) == [scheme |-> url.scheme, netloc |-> url.netloc, path |-> path]
Request(method, url) == [method |-> method, url |-> url]

\* check_robots_permission, lines 122-148: the answer, and whether the
\* parsed rules were consulted
check_robots_permission_open(url, robots) == [ret |-> TRUE, consulted |-> FALSE]
check_robots_permission_strict(url, robots) ==
    IF Raised(robots) THEN [ret |-> TRUE, consulted |-> FALSE]
    ELSE IF robots.status = 200
         THEN [ret |-> can_fetch(robots.rules, url), consulted |-> TRUE]
         ELSE [ret |-> can_fetch(robots.rules, url), consulted |-> TRUE]
check_robots_permission(url, robots) ==
    IF Raised(robots) THEN [ret |-> TRUE, consulted |-> FALSE]         \* line 141
    ELSE IF robots.status = 200                                        \* line 136
         THEN [ret |-> can_fetch(robots.rules, url), consulted |-> TRUE]
         ELSE [ret |-> TRUE, consulted |-> FALSE]                      \* line 139

RobotsRequest(url) == Request("GET", SiteUrl(url, "/robots.txt"))

\* Content-Type values, their .lower(), and 'text/html' in content_type
CTypes == {"text/html", "Text/HTML; charset=UTF-8", "application/json", ""}
Lower(ct) == CASE ct = "Text/HTML; charset=UTF-8" -> "text/html; charset=utf-8"
               [] OTHER -> ct
MentionsHtml(ct) == ct \in {"text/html", "text/html; charset=utf-8"}

----------------------------------------------------------------------------
(* Site permission evaluator: check_site_permissions, lines 70-120 *)

\* X-RateLimit-Remaining: absent, or the header's text
Remainings == {"absent", "5", "0", "-1", "soon"}
IsInt(text) == text \in {"5", "0", "-1"}
int(text) == CASE text = "5" -> 5 [] text = "0" -> 0 [] text = "-1" -> -1

HeadStatuses == {200, 403, 429, 404}
HeadResps ==
    {NetError} \cup
    { [kind |-> "resp", status |-> st, remaining |-> rem, ctype |-> ct] :
        st \in HeadStatuses, rem \in Remainings, ct \in CTypes }

tos_paths == <<"/terms", "/tos", "/terms-of-service", "/terms-and-conditions">>
TosResp == {NetError, [kind |-> "resp", status |-> 200], [kind |-> "resp", status |-> 404]}
TosResps == [1..4 -> TosResp]

\* lines 105-114: the loop over tos_paths from index i on
TosLoop_deny(url, tos, i, reqs) ==
    IF Raised(tos[i])
      THEN [allowed |-> FALSE,
            reason |-> <<"Network error during permission check: ", tos[i].detail>>,
            reqs |-> Append(reqs, Request("HEAD", SiteUrl(url, tos_paths[i])))]
      ELSE [allowed |-> TRUE, reason |-> <<"All permission checks passed">>,
            reqs |-> Append(reqs, Request("HEAD", SiteUrl(url, tos_paths[i])))]
RECURSIVE TosLoop(_, _, _, _)
TosLoop(url, tos, i, reqs) ==
    IF i > Len(tos_paths)
      THEN [allowed |-> TRUE, reason |-> <<"All permission checks passed">>,
            reqs |-> reqs]
      ELSE LET tos_url == SiteUrl(url, tos_paths[i])
               sent == Append(reqs, Request("HEAD", tos_url))
           IN  IF ~Raised(tos[i]) /\ tos[i].status = 200
                 THEN [allowed |-> TRUE,
                       reason |-> <<"Warning: Please review Terms of Service at ",
                                    tos_url>>,
                       reqs |-> sent]
                 ELSE TosLoop(url, tos, i + 1, sent)

Denied_allow(reason, reqs) == [allowed |-> TRUE, reason |-> reason, reqs |-> reqs]
Denied(reason, reqs) == [allowed |-> FALSE, reason |-> reason, reqs |-> reqs]

\* lines 86-88
HeaderExhausted(head) == head.remaining # "absent" /\ int(head.remaining) <= 0

\* lines 91-92
Forbidden_never(head) == FALSE
Forbidden(head) == head.status = 403

check_site_permissions(url, net) ==
    LET r1 == <<RobotsRequest(url)>>
        r2 == Append(r1, Request("HEAD", url))
        head == net.head
    IN  IF ~check_robots_permission(url, net.robots).ret                  \* line 78
          THEN Denied(<<"Blocked by robots.txt">>, r1)
        ELSE IF Raised(head)                                              \* line 116
          THEN Denied(<<"Network error during permission check: ", head.detail>>, r2)
        ELSE IF head.remaining # "absent" /\ ~IsInt(head.remaining)       \* line 119
          THEN Denied(<<"Permission check error: ",
                        "invalid literal for int() with base 10">>, r2)
        ELSE IF HeaderExhausted(head)                                     \* line 87
          THEN Denied(<<"Rate limit exceeded">>, r2)
        ELSE IF Forbidden(head)                                           \* line 91
          THEN Denied(<<"Access forbidden">>, r2)
        ELSE IF head.status = 429                                         \* line 93
          THEN Denied(<<"Too many requests">>, r2)
        ELSE IF head.status # 200                                         \* line 95
          THEN Denied(<<"HTTP error: ", ToString(head.status)>>, r2)
        ELSE IF ~MentionsHtml(Lower(head.ctype))                          \* line 100
          THEN Denied(<<"Unsupported content type: ", Lower(head.ctype)>>, r2)
        ELSE TosLoop(url, net.tos, 1, r2)

NoCallYet == [op |-> "none"]

\* /check-permission, lines 452-466, on a URL with the network behaving as net
check_permission(url, net) ==
    /\ inp' = [op |-> "check_site_permissions", url |-> url, net |-> net]
    /\ out' = [ret |-> check_site_permissions(url, net),
               \* history: what the robots checker answered inside the call
               robots |-> check_robots_permission(url, net.robots)]
    /\ UNCHANGED <<rlVars, store, hist>>

PermNets == [robots : RobotsResps, head : HeadResps, tos : TosResps]

InitIdle == InitRL

\* one request is followed from its arrival to its answer
NextPerm ==
    /\ inp = NoCallYet
    /\ \E url \in Urls, net \in PermNets : check_permission(url, net)

SpecPerm == InitIdle /\ [][NextPerm]_vars

----------------------------------------------------------------------------
(* Content extractor: extract_text_from_url, lines 150-237 *)

Failed(error, reqs) ==
    [text |-> None, error |-> error, reqs |-> reqs, stage |-> "none", cleaned |-> <<>>]

\* response.raise_for_status(), line 159
raise_for_status(status) == status >= 400

extract_text_from_url(url, net) ==
    LET r1 == <<RobotsRequest(url)>>
        r2 == Append(r1, Request("GET", url))
        page == net.page
    IN  IF ~check_robots_permission(url, net.robots).ret                  \* line 154
          THEN Failed(<<"Scraping disallowed by robots.txt">>, r1)
        ELSE IF Raised(page)                                              \* line 234
          THEN Failed(<<"Network error: ", page.detail>>, r2)
        ELSE IF raise_for_status(page.status)                             \* line 159
          THEN Failed(<<"Network error: ", ToString(page.status)>>, r2)
        ELSE IF ~MentionsHtml(Lower(page.ctype))                          \* line 163
          THEN Failed(<<"Unsupported content type: ", Lower(page.ctype)>>, r2)
        ELSE LET e == ExtractFromSoup(page.doc)
             IN  [text |-> e.text, error |-> e.error, reqs |-> r2,
                  stage |-> e.stage, cleaned |-> e.cleaned]

\* The pages the extractor is run on: one element, an element inside a div,
\* a section or (a span) a paragraph, with or without text of the wrapper's
\* own, or two elements.
ContentClass == [id |-> "", class |-> {"content"}, role |-> ""]
MainRole == [id |-> "", class |-> {}, role |-> "main"]
PageTags == {"p", "div", "section", "article", "main", "span", "script"}
Gapped(c, n, m) == Str(c, n) \o <<Run(" ", 1), Run("\n", 2)>> \o Str(c, m)
PageTexts ==
    { <<>>, Str(" ", 2), Str("a", 50), Str("a", 51), Str("a", 60), Str("a", 100),
      Str("a", 101), <<Run(" ", 1), Run("a", 60), Run("\n", 1)>>,
      Gapped("a", 50, 49), Gapped("a", 50, 50), Str("a", 12000), Str("a", 12001),
      Str("a", 11999) \o Str("b", 2) }
Leaves(tags, ats, texts) ==
    { El(tag, at, <<TextNode(t)>>) : tag \in tags, at \in ats, t \in texts }
InnerTexts == {Str("a", 51), Str("a", 60), Str("a", 101)}
InnerLeaves == Leaves(PageTags, {Plain, ContentClass}, InnerTexts)
InlineLeaves == Leaves({"span"}, {Plain, ContentClass}, InnerTexts)
Wrapped(w, e) ==
    { Soup(<<El(w, Plain, <<e>>)>>),
      Soup(<<El(w, Plain, <<TextNode(Str("b", 60)), e>>)>>) }
Docs ==
    { Soup(<<e>>) : e \in Leaves(PageTags, {Plain, ContentClass, MainRole}, PageTexts) }
    \cup UNION { Wrapped(w, e) : w \in {"div", "section"}, e \in InnerLeaves }
    \cup UNION { Wrapped("p", e) : e \in InlineLeaves }
    \cup { Soup(<<e1, e2>>) :
             e1 \in Leaves(PageTags, {Plain, ContentClass}, {Str("a", 60), Str("a", 101)}),
             e2 \in Leaves(PageTags, {Plain, ContentClass}, {Str("b", 60), Str("b", 101)}) }

EmptyDoc == Soup(<<>>)
LongDoc == Soup(<<El("p", Plain, <<TextNode(Str("a", 101))>>)>>)
Page(status, ctype, doc) ==
    [kind |-> "resp", status |-> status, ctype |-> ctype, doc |-> doc]
PageResps ==
    {NetError}
    \cup { Page(st, "text/html", EmptyDoc) : st \in {404, 500} }
    \cup { Page(200, ct, LongDoc) : ct \in CTypes }
    \cup { Page(200, "text/html", doc) : doc \in Docs }

ExtractNets == [robots : RobotsResps, page : PageResps]

\* one call of the extractor on a URL with the network behaving as net
extract(url, net) ==
    /\ inp' = [op |-> "extract_text_from_url", url |-> url, net |-> net]
    /\ out' = [ret |-> extract_text_from_url(url, net),
               robots |-> check_robots_permission(url, net.robots)]
    /\ UNCHANGED <<rlVars, store, hist>>

NextExtract ==
    /\ inp = NoCallYet
    /\ \E url \in Urls, net \in ExtractNets : extract(url, net)

SpecExtract == InitIdle /\ [][NextExtract]_vars

----------------------------------------------------------------------------
(* Language model: extract_fields_with_gemini, lines 239-311.  The text of *)
(* a response is a sequence of tokens: prose without braces, an opening    *)
(* brace, a closing brace, or the members of a JSON object.                *)

Prose == [t |-> "prose"]
Open == [t |-> "{"]
Close == [t |-> "}"]
Members(v) == [t |-> "members", v |-> v]

FirstAt(text, tok) ==
    IF \E i \in 1..Len(text) : text[i] = tok
      THEN CHOOSE i \in 1..Len(text) : text[i] = tok /\ \A j \in 1..(i - 1) : text[j] # tok
      ELSE 0
LastAt(text, tok) ==
    IF \E i \in 1..Len(text) : text[i] = tok
      THEN CHOOSE i \in 1..Len(text) :
               text[i] = tok /\ \A j \in (i + 1)..Len(text) : text[j] # tok
      ELSE 0

\* re.search(r'\{[\s\S]*\}', text), line 306: from the first opening brace
\* to the last closing brace after it; <<>> when there is no match
json_match(text) ==
    LET from == FirstAt(text, Open)
        to == LastAt(text, Close)
    IN  IF from > 0 /\ to > from THEN SubSeq(text, from, to) ELSE <<>>

\* lines 303-311
extract_fields_with_gemini_silent(llm) ==
    IF Raised(llm) THEN [text |-> <<Open, Close>>, error |-> None]
    ELSE IF json_match(llm.text) # <<>>
      THEN [text |-> json_match(llm.text), error |-> None]
    ELSE [text |-> None, error |-> <<"No valid JSON found in AI response">>]
extract_fields_with_gemini(llm) ==
    IF Raised(llm)
      THEN [text |-> None, error |-> <<"Gemini processing error: ", llm.detail>>]
    ELSE IF json_match(llm.text) # <<>>
      THEN [text |-> json_match(llm.text), error |-> None]
    ELSE [text |-> None, error |-> <<"No valid JSON found in AI response">>]

\* json.loads, line 402: one object and nothing else, or JSONDecodeError
NoMembers == [name |-> "absent", website |-> "absent", contact_email |-> <<[t |-> "None"]>>]
json_loads(span) ==
    IF Len(span) = 3 /\ span[1] = Open /\ span[2].t = "members" /\ span[3] = Close
      THEN [ok |-> TRUE, value |-> span[2].v]
    ELSE IF span = <<Open, Close>> THEN [ok |-> TRUE, value |-> NoMembers]
    ELSE [ok |-> FALSE, value |-> NoMembers]

----------------------------------------------------------------------------
(* Contact info: clean_contact_info, lines 313-345.  A contact text is a   *)
(* sequence of tokens: a word (letters and digits), a run of whitespace,   *)
(* the two characters backslash n, or an address local<sep>domain with sep *)
(* "@", "[at]" or "&#64;".  Tokens that follow each other touch.           *)

Word(w) == [t |-> "word", w |-> w]
Blank == [t |-> "space"]
EscapedNewline == [t |-> "esc_n"]
Mail(local, sep, domain) == [t |-> "mail", local |-> local, sep |-> sep, domain |-> domain]
\* the value None: the key is missing from the JSON object
AbsentContact == <<[t |-> "None"]>>

\* [\w\.-]+ read leftwards from position j: the word characters that touch
\* it, as pieces.  Of backslash n the n is a word character, the backslash
\* is not.
RECURSIVE LeftPieces(_, _)
LeftPieces(ci, j) ==
    IF j = 1 THEN <<>>
    ELSE IF ci[j - 1] = EscapedNewline THEN <<"n">>
    ELSE IF ci[j - 1].t = "word" THEN Append(LeftPieces(ci, j - 1), ci[j - 1].w)
    ELSE <<>>
\* [\w\.-]+\.\w+ read rightwards from position j
RECURSIVE RightPieces(_, _)
RightPieces(ci, j) ==
    IF j = Len(ci) THEN <<>>
    ELSE IF ci[j + 1].t = "word" THEN <<ci[j + 1].w>> \o RightPieces(ci, j + 1)
    ELSE <<>>

\* re.findall(email_pattern, contact_info), line 321, on the text as given:
\* each match with the pieces of its local part and of its domain
Emails(ci) ==
    { [local |-> Append(LeftPieces(ci, j), ci[j].local),
       domain |-> <<ci[j].domain>> \o RightPieces(ci, j)] :
        j \in { k \in 1..Len(ci) : ci[k].t = "mail" /\ ci[k].sep = "@" } }

\* lines 325-326 and 331-332: replace('\\n', ' ') and re.sub(r'\s+', ' ')
RECURSIVE CollapseBlanks(_)
CollapseBlanks(ci) ==
    IF ci = <<>> THEN <<>>
    ELSE LET first == IF Head(ci) = EscapedNewline THEN Blank ELSE Head(ci)
             rest == CollapseBlanks(Tail(ci))
         IN  IF first = Blank /\ rest # <<>> /\ Head(rest) = Blank
               THEN rest ELSE <<first>> \o rest

IsSuffix(a, b) == Len(a) <= Len(b) /\ SubSeq(b, Len(b) - Len(a) + 1, Len(b)) = a
IsPrefix(a, b) == Len(a) <= Len(b) /\ SubSeq(b, 1, Len(a)) = a

\* lines 335-340, str.replace on the cleaned text: the address at position j
\* written with "[at]" or "&#64;" gets its "@" back when the sanitized or the
\* HTML-encoded form of a found address lies across it
Repair(text, j, emails) ==
    IF text[j].t = "mail" /\ text[j].sep \in {"[at]", "&#64;"}
       /\ \E e \in emails :
              /\ IsSuffix(e.local, Append(LeftPieces(text, j), text[j].local))
              /\ IsPrefix(e.domain, <<text[j].domain>> \o RightPieces(text, j))
      THEN Mail(text[j].local, "@", text[j].domain) ELSE text[j]

\* line 327, 342: .strip()
RECURSIVE StripBlanks(_)
StripBlanks(ci) ==
    IF ci # <<>> /\ Head(ci) = Blank THEN StripBlanks(Tail(ci))
    ELSE IF ci # <<>> /\ ci[Len(ci)] = Blank THEN StripBlanks(SubSeq(ci, 1, Len(ci) - 1))
    ELSE ci

clean_contact_info(ci) ==
    IF ci = <<>> \/ ci = AbsentContact THEN <<Word("Unknown")>>         \* line 316
    ELSE LET cleaned == CollapseBlanks(ci)
         IN  StripBlanks([j \in 1..Len(cleaned) |-> Repair(cleaned, j, Emails(ci))])

\* The texts the normalizer is run on: up to MaxTokens tokens, an address
\* never touching a word or another address.
MaxTokens == 4
ContactTokens ==
    { Word("Sales"), Blank, EscapedNewline,
      Mail("jane", "@", "example.com"), Mail("jane", "[at]", "example.com"),
      Mail("jane", "&#64;", "example.com"), Mail("joe", "[at]", "example.com") }
Apart(ci) ==
    \A j \in 1..(Len(ci) - 1) :
        /\ ci[j].t = "mail" => ci[j + 1].t \notin {"mail", "word"}
        /\ ci[j + 1].t = "mail" => ci[j].t \notin {"mail", "word"}
Contacts ==
    {AbsentContact}
    \cup UNION { { ci \in [1..n -> ContactTokens] : Apart(ci) } : n \in 0..MaxTokens }

\* one call of the normalizer
normalize(ci) ==
    /\ inp' = [op |-> "clean_contact_info", ci |-> ci]
    /\ out' = [ret |-> clean_contact_info(ci)]
    /\ UNCHANGED <<rlVars, store, hist>>

NextContact ==
    /\ inp = NoCallYet
    /\ \E ci \in Contacts : normalize(ci)

SpecContact == InitIdle /\ [][NextContact]_vars

----------------------------------------------------------------------------
(* The store: the entities table behind supabase.table('entities') *)

\* .select('id').eq('website', url), line 375: the matching rows by id
RECURSIVE RowsById(_)
RowsById(rows) ==
    IF rows = {} THEN <<>>
    ELSE LET r == CHOOSE x \in rows : \A y \in rows : x.id <= y.id
         IN  <<r>> \o RowsById(rows \ {r})
SelectByWebsite(url) == RowsById({ r \in store : r.data.website = url })

\* line 411
Existing_never(rows) == FALSE
Existing(rows) == rows # <<>>

\* .insert(record), line 419: the store assigns the identifier
InsertRow(record) == [id |-> Cardinality(store) + 1, data |-> record]
\* .update(record).eq('id', id), line 414: the given columns of the row with
\* that id are overwritten
UpdateRow(id, record) ==
    LET row == CHOOSE r \in store : r.id = id
    IN  [id |-> id,
         data |-> [record EXCEPT
                     !.created_at = IF @ = "absent" THEN row.data.created_at ELSE @]]

\* lines 405-409: contact cleaned, update stamp, website forced to the URL
BuildRecord_keep(value, url) ==
    [name |-> value.name, website |-> value.website,
     contact_email |-> clean_contact_info(value.contact_email),
     updated_at |-> "now()", created_at |-> "absent"]
BuildRecord(value, url) ==
    [name |-> value.name, website |-> url,
     contact_email |-> clean_contact_info(value.contact_email),
     updated_at |-> "now()", created_at |-> "absent"]

----------------------------------------------------------------------------
(* Orchestrator: scrape_website, lines 355-449 *)

\* request bodies: no JSON, JSON without 'url', or a 'url' of some padding
\* around a URL or around nothing
NoData == [has_url |-> FALSE, json |-> FALSE]
NoUrlKey == [has_url |-> FALSE, json |-> TRUE]
NoUrl == [scheme |-> "", netloc |-> "", path |-> ""]
WithUrl(lead, body, trail) ==
    [has_url |-> TRUE, json |-> TRUE, lead |-> lead, body |-> body, trail |-> trail]
ScrapeUrls == { u \in Urls : u.netloc = "a.example" }
Requests ==
    {NoData, NoUrlKey, WithUrl(0, NoUrl, 0), WithUrl(2, NoUrl, 0)}
    \cup { WithUrl(1, u, 1) : u \in { v \in ScrapeUrls : v.path = "/x" } }
\* data['url'].strip(), line 366
strip_url(req) == req.body

\* what the collaborators may answer during one run
ThinDoc == Soup(<<El("p", Plain, <<TextNode(Str("a", 60))>>)>>)
ScrapeNets ==
    [robots : {NetError, [kind |-> "resp", status |-> 200, rules |-> {"/"}]},
     page : {NetError, Page(404, "text/html", EmptyDoc), Page(200, "application/json", LongDoc),
             Page(200, "text/html", ThinDoc), Page(200, "text/html", LongDoc)}]
OtherSite == [scheme |-> "https", netloc |-> "other.example", path |-> "/"]
Obfuscated == <<Mail("jane", "[at]", "example.com"), Blank, Blank,
                Mail("jane", "@", "example.com")>>
Payloads(url) ==
    { [name |-> "Acme", website |-> p[1], contact_email |-> p[2]] :
        p \in {<<url, <<>>>>, <<OtherSite, Obfuscated>>} }
LlmResps(url) ==
    {NetError, [kind |-> "resp", text |-> <<Prose>>]}
    \cup { [kind |-> "resp", text |-> <<Prose, Open, Members(v), Close, Prose>>] :
             v \in Payloads(url) }
    \cup UNION { { [kind |-> "resp",
                     text |-> <<Open, Members(v), Close, Open, Members(v), Close>>],
                    [kind |-> "resp", text |-> <<Open, Members(v), Close, Prose, Close>>] } :
                  v \in { x \in Payloads(url) : x.website = url /\ x.contact_email = <<>> } }
StoreAnswers == {"rows", "empty", "raise"}
\* what one server is given: the requests that arrive, how many of them, and
\* what the web, the language model and the store may answer; order tells
\* whether the history keeps when each run began
Server(runs, requests, nets, llms, lookups, answers, order) ==
    [runs |-> runs, requests |-> requests, nets |-> nets,
     llms |-> llms, lookups |-> lookups, answers |-> answers, order |-> order]

\* the two except clauses, lines 435-449
Status400(msg) == [code |-> 400, body |-> [status |-> "error", message |-> msg]]
Status500(msg) ==
    [code |-> 500,
     body |-> [status |-> "error", message |-> <<"Data processing failed: ">> \o msg]]
\* lines 424-432
Status200(operation, record, id) ==
    [code |-> 200,
     body |-> [status |-> "success", message |-> <<"Data ", operation, " successfully">>,
               data |-> [record |-> record, id |-> id]]]

\* raise ValueError(str(error)), line 381
ExtractFailure(msg) == Status400(msg)
\* json.loads raising JSONDecodeError, a ValueError, line 402
JsonFailure == Status400(<<"Extra data">>)

\* the run is over: its record joins the history, the store is as given;
\* after is the number of runs that were over when this one began, 0 where
\* the history does not keep it
Finish(run, stage, ops, resp, rows) ==
    /\ hist' = Append(hist, [req |-> run.req, url |-> run.url, after |-> run.after,
                             stage |-> stage, ops |-> ops, resp |-> resp])
    /\ store' = rows

Op(name, arg) == [op |-> name, arg |-> arg]
HttpOps(reqs) == [i \in 1..Len(reqs) |-> Op("http", reqs[i])]

----------------------------------------------------------------------------
(* /scrape as the server threads run it (waitress, or the threaded         *)
(* development server, app.py:468-481).  A run is cut wherever it touches   *)
(* what the threads share: inside check_rate_limit (the rl_ steps above),   *)
(* at the lookup (line 375) and at the write (lines 414, 419); the fetches  *)
(* and the language-model call in between touch nothing shared and are one  *)
(* step.  inp holds each thread's run under way.                            *)

NoRecord == [name |-> "absent", website |-> NoUrl, contact_email |-> <<>>,
             updated_at |-> "absent", created_at |-> "absent"]
IdleRun == [pc |-> "idle", req |-> NoData, url |-> NoUrl, after |-> 0, found |-> <<>>,
            ops |-> <<>>, record |-> NoRecord]
NewRun(req, url, order) ==
    [IdleRun EXCEPT !.req = req, !.url = url, !.after = IF order THEN Len(hist) ELSE 0]
\* runs begun so far
Begun == Len(hist) + Cardinality({ t \in Threads : inp[t].pc # "idle" })

\* lines 362-371: the request is read and check_rate_limit entered
sc_begin(t, req, runs, order) ==
    /\ inp[t].pc = "idle"
    /\ Begun < runs
    /\ UNCHANGED <<rate_limits, heap, now, lastCall, out>>
    /\ IF ~req.has_url                                                 \* line 363
         THEN /\ Finish(NewRun(req, NoUrl, order), "input", <<>>,
                        Status400(<<"Missing URL parameter">>), store)
              /\ UNCHANGED <<thr, specWin, specCalls, accepted, resetFrom, inp>>
       ELSE IF strip_url(req) = NoUrl                                  \* line 367
         THEN /\ Finish(NewRun(req, NoUrl, order), "input", <<>>,
                        Status400(<<"Empty URL provided">>), store)
              /\ UNCHANGED <<thr, specWin, specCalls, accepted, resetFrom, inp>>
       ELSE /\ EnterRateLimit(t, strip_url(req), 0)                    \* line 371
            /\ inp' = [inp EXCEPT ![t] = [NewRun(req, strip_url(req), order)
                                              EXCEPT !.pc = "L371"]]
            /\ UNCHANGED <<hist, store>>

\* lines 371-372: check_rate_limit returns
sc_checked(t) ==
    /\ inp[t].pc = "L371"
    /\ LeaveRateLimit(t)
    /\ UNCHANGED out
    /\ IF ~RateLimitResult(t)
         THEN /\ Finish(inp[t], "rate", <<>>,
                        Status500(<<"Rate limit exceeded for this domain">>), store)
              /\ inp' = [inp EXCEPT ![t] = IdleRun]
         ELSE /\ inp' = [inp EXCEPT ![t].pc = "L375"]
              /\ UNCHANGED <<hist, store>>

\* line 375: the rows the store holds for the website at this moment
sc_lookup(t, lookups) ==
    /\ inp[t].pc = "L375"
    /\ UNCHANGED <<rlVars, out>>
    /\ \E lookup \in lookups :
        LET found == SelectByWebsite(inp[t].url)
            ids == [k \in 1..Len(found) |-> found[k].id]
        IN  IF lookup = "raise"
              THEN /\ Finish(inp[t], "lookup",
                             <<Op("select", [url |-> inp[t].url, result |-> "raise"])>>,
                             Status500(<<"store error">>), store)
                   /\ inp' = [inp EXCEPT ![t] = IdleRun]
              ELSE /\ inp' = [inp EXCEPT
                                ![t].pc = "L378", ![t].found = ids,
                                ![t].ops = <<Op("select", [url |-> inp[t].url,
                                                           result |-> ids])>>]
                   /\ UNCHANGED <<hist, store>>

\* lines 378-409
sc_process(t, nets, llms) ==
    /\ inp[t].pc = "L378"
    /\ UNCHANGED <<rlVars, out>>
    /\ \E net \in nets :
        LET url == inp[t].url
            e == extract_text_from_url(url, net)                       \* line 378
            ops2 == inp[t].ops \o HttpOps(e.reqs)
        IN  IF e.error # None                                          \* line 380
              THEN /\ Finish(inp[t], "extract", ops2, ExtractFailure(e.error), store)
                   /\ inp' = [inp EXCEPT ![t] = IdleRun]
              ELSE \E llm \in llms[url] :
                  LET g == extract_fields_with_gemini(llm)             \* line 390
                      ops3 == Append(ops2, Op("llm", llm))
                      j == json_loads(g.text)                          \* line 402
                  IN  IF g.error # None                                \* line 392
                        THEN /\ Finish(inp[t], "llm", ops3, Status500(g.error), store)
                             /\ inp' = [inp EXCEPT ![t] = IdleRun]
                      ELSE IF ~j.ok
                        THEN /\ Finish(inp[t], "json", ops3, JsonFailure, store)
                             /\ inp' = [inp EXCEPT ![t] = IdleRun]
                      ELSE /\ inp' = [inp EXCEPT ![t].pc = "L411", ![t].ops = ops3,
                                                 ![t].record = BuildRecord(j.value, url)]
                           /\ UNCHANGED <<hist, store>>

\* lines 411-434: update the row line 375 found or insert a new one,
\* whatever the store holds by now, then answer
StoreWrite(run, answers) ==
    \E answer \in answers :
        LET operation == IF Existing(run.found) THEN "updated" ELSE "created"
            written == IF Existing(run.found) THEN run.record
                       ELSE [run.record EXCEPT !.created_at = "now()"]
            row == IF Existing(run.found) THEN UpdateRow(run.found[1], written)
                   ELSE InsertRow(written)
            \* the call, with what the store answered it
            op == IF Existing(run.found)
                    THEN Op("update", [id |-> run.found[1], record |-> written,
                                       result |-> answer])
                    ELSE Op("insert", [record |-> written, result |-> answer])
            done == Append(run.ops, op)
        IN  CASE answer = "rows" ->
                   Finish(run, "ok", done, Status200(operation, written, row.id),
                          { r \in store : r.id # row.id } \cup {row})
              [] answer = "empty" ->          \* line 434
                   Finish(run, "store", done,
                          Status500(<<"Failed to ", operation, " data in Supabase">>), store)
              [] answer = "raise" ->          \* line 441
                   Finish(run, "store", done, Status500(<<"store error">>), store)

sc_write(t, answers) ==
    /\ inp[t].pc = "L411"
    /\ StoreWrite(inp[t], answers)
    /\ inp' = [inp EXCEPT ![t] = IdleRun]
    /\ UNCHANGED <<rlVars, out>>

\* one step of thread t of a server given env
scrape_website(t, env) ==
    \/ \E req \in env.requests : sc_begin(t, req, env.runs, env.order)
    \/ rl_lookup(t)
    \/ rl_factory(t)
    \/ rl_reset(t)
    \/ rl_fetch(t)
    \/ rl_read(t)
    \/ rl_write(t)
    \/ sc_checked(t)
    \/ sc_lookup(t, env.lookups)
    \/ sc_process(t, env.nets, env.llms)
    \/ sc_write(t, env.answers)

\* The server starts serving at the given second with host a.example never
\* seen (count 0), or with the given count in a window begun at second 0.
Start(c, at) == [count |-> c, now |-> at]
ServerStart(starts) ==
    \E start \in starts :
      LET c == start.count IN
        /\ rate_limits = [h \in Hosts |-> IF h = "a.example" /\ c > 0 THEN 1 ELSE NoObj]
        /\ heap = [o \in ObjIds |-> IF o = 1 /\ c > 0
                                      THEN [count |-> c, reset_time |-> 0] ELSE NoDict]
        /\ now = start.now
        /\ thr = [t \in Threads |-> IdleThread]
        /\ specWin = [h \in Hosts |-> IF h = "a.example" /\ c > 0 THEN 0 ELSE -1]
        /\ specCalls = [h \in Hosts |-> IF h = "a.example" THEN c ELSE 0]
        /\ accepted = [h \in Hosts |-> IF h = "a.example" THEN c ELSE 0]
        /\ resetFrom = [h \in Hosts |-> 0]
        /\ lastCall = NoCall
        /\ inp = [t \in Threads |-> IdleRun]
        /\ out = NoCallYet
        /\ store = {}
        /\ hist = <<>>

\* One website, and every answer the collaborators may give.
AllLlms == [u \in Urls |-> LlmResps(u)]
InitScrape ==
    ServerStart({Start(0, 0), Start(RateLimit - 1, 0), Start(RateLimit - 1, WindowSeconds + 1)})

NextScrape ==
    \E t \in Threads :
        scrape_website(t, Server(MaxRuns, Requests, ScrapeNets, AllLlms,
                                 {"rows", "raise"}, StoreAnswers, FALSE))

SpecScrape == InitScrape /\ [][NextScrape]_vars

----------------------------------------------------------------------------
(* /scrape for URLs of two hosts, one of them with its quota of the window *)
(* begun at second 0 used up or untouched; the pages load and the language *)
(* model answers.                                                          *)

GoodNets == { n \in ScrapeNets : n.robots = NetError /\ n.page = Page(200, "text/html", LongDoc) }
GoodLlms ==
    [u \in Urls |-> { [kind |-> "resp", text |-> <<Prose, Open, Members(v), Close, Prose>>] :
                        v \in { x \in Payloads(u) : x.website = u } }]
HostRequests ==
    {NoData, WithUrl(2, NoUrl, 0)}
    \cup { WithUrl(0, u, 0) : u \in { v \in Urls : v.path = "/x" } }

InitScrapeHosts ==
    ServerStart({Start(0, 0), Start(RateLimit, 0), Start(RateLimit, WindowSeconds + 1)})

NextScrapeHosts ==
    \E t \in Threads :
        scrape_website(t, Server(MaxRuns, HostRequests, GoodNets, GoodLlms,
                                 {"rows"}, {"rows", "raise"}, FALSE))

SpecScrapeHosts == InitScrapeHosts /\ [][NextScrapeHosts]_vars

----------------------------------------------------------------------------
(* /scrape for two websites of one host, written in two ways, against a    *)
(* store that may fail; the pages load and the language model answers.     *)
(* The history keeps when each run began, so that runs in sequence can be  *)
(* told from runs that overlap.                                            *)

ConcRuns == 2        \* /scrape requests given to the server with the failing store
ConcRequests ==
    { WithUrl(0, u, 0) : u \in ScrapeUrls }
    \cup { WithUrl(1, u, 1) : u \in { v \in ScrapeUrls : v.path = "/x" } }

InitScrapeConc == ServerStart({Start(0, 0), Start(1, WindowSeconds + 1)})

NextScrapeConc ==
    \E t \in Threads :
        scrape_website(t, Server(ConcRuns, ConcRequests, GoodNets, GoodLlms,
                                 {"rows", "raise"}, StoreAnswers, TRUE))

SpecScrapeConc == InitScrapeConc /\ [][NextScrapeConc]_vars

----------------------------------------------------------------------------
(* Claims about the rate limiter, checked under SpecRL *)

Min(a, b) == IF a <= b THEN a ELSE b

\* C1: within one window of a host the 1st to 60th call return true and the
\* 61st and every later call return false, so at most 60 calls are accepted
\* between two consecutive resets of the host.
C1_SixtyPerWindow ==
    \A h \in Hosts :
        /\ accepted[h] = Min(specCalls[h], 60)
        /\ lastCall.host = h => (lastCall.ret <=> specCalls[h] <= 60)

C1_Witness ==
    \E h \in Hosts : /\ lastCall.host = h /\ ~lastCall.ret
                     /\ specCalls[h] = 62 /\ accepted[h] = 60

\* C2: a call made strictly more than 60 seconds after the window start
\* resets the entry before the increment (count 1, window start now, result
\* true) and the host then answers like a fresh one whatever the count was;
\* a call at 60 seconds or less only increments.
C2_ResetAfterWindow ==
    \A h \in Hosts :
        /\ lastCall.host = h /\ lastCall.elapsed > 60 =>
              /\ heap[rate_limits[h]] = [count |-> 1, reset_time |-> lastCall.at]
              /\ lastCall.ret
        /\ lastCall.host = h /\ lastCall.elapsed >= 0 /\ lastCall.elapsed <= 60 =>
              heap[rate_limits[h]] =
                  [count |-> lastCall.before + 1,
                   reset_time |-> lastCall.at - lastCall.elapsed]
        /\ resetFrom[h] > 0 =>
              /\ heap[rate_limits[h]].count = specCalls[h]
              /\ lastCall.host = h => (lastCall.ret <=> specCalls[h] <= 60)

C2_Witness ==
    \E h \in Hosts : /\ resetFrom[h] = 2 /\ lastCall.host = h
                     /\ specCalls[h] = 60 /\ lastCall.ret

Quiet(h) == \A t \in Threads : thr[t].pc = "idle" \/ thr[t].host # h

\* C3: when threads call check_rate_limit concurrently for one host no
\* increment is lost and no reset overwrites a concurrent increment: once the
\* calls have returned the stored count is the number of calls made since the
\* window start, and at most 60 calls of a window returned true.
C3_NoLostIncrement ==
    \A h \in Hosts :
        /\ accepted[h] <= 60
        /\ Quiet(h) /\ rate_limits[h] # NoObj =>
              heap[rate_limits[h]].count = specCalls[h]

----------------------------------------------------------------------------
(* Claims about the site permission evaluator and the robots checker,      *)
(* checked under SpecPerm                                                  *)

PermDone == inp.op = "check_site_permissions"
\* robots.txt was fetched with status 200 and its rules cover the URL
RobotsForbids(url, robots) ==
    /\ robots.kind = "resp" /\ robots.status = 200
    /\ ("/" \in robots.rules \/ url.path \in robots.rules)
IsTosRequest(rq) ==
    rq.method = "HEAD"
    /\ rq.url.path \in {"/terms", "/tos", "/terms-of-service", "/terms-and-conditions"}
NoTosRequest(reqs) == \A i \in 1..Len(reqs) : ~IsTosRequest(reqs[i])
Probe403 ==
    /\ PermDone /\ ~RobotsForbids(inp.url, inp.net.robots)
    /\ inp.net.head.kind = "resp" /\ inp.net.head.status = 403
AccessForbidden ==
    /\ out.ret.allowed = FALSE
    /\ out.ret.reason = <<"Access forbidden">>
    /\ NoTosRequest(out.ret.reqs)

\* C7 as stated: whenever the probe's status is 403 and robots allowed the
\* URL the evaluator returns (false, "Access forbidden") without any request
\* to a terms-of-service path.
C7_Forbidden403 == Probe403 => AccessForbidden

\* C7 as amended: the same provided the probe's response carries no
\* X-RateLimit-Remaining header or one whose value is a positive integer;
\* whatever that header says, a 403 probe is denied without any request to a
\* terms-of-service path.
C7_Forbidden403UnlessHeader ==
    Probe403 =>
        /\ out.ret.allowed = FALSE
        /\ NoTosRequest(out.ret.reqs)
        /\ inp.net.head.remaining \in {"absent", "5"} => AccessForbidden

C7_Witness ==
    /\ Probe403 /\ inp.net.head.remaining = "5" /\ AccessForbidden
    /\ inp.net.tos[1] = [kind |-> "resp", status |-> 200]

\* C8: the robots checker answers true whenever fetching robots.txt fails
\* (network error, timeout, or a status other than 200) and consults the
\* parsed rules only after a 200 response.
C8_RobotsFailOpen ==
    PermDone =>
        /\ (inp.net.robots.kind = "error" \/ inp.net.robots.status # 200) =>
              /\ out.robots.ret = TRUE
              /\ ~out.robots.consulted
              /\ out.ret.reason # <<"Blocked by robots.txt">>
        /\ out.robots.consulted => inp.net.robots.kind = "resp" /\ inp.net.robots.status = 200
        /\ out.robots.ret = FALSE <=> RobotsForbids(inp.url, inp.net.robots)

C8_Witness ==
    /\ PermDone /\ inp.net.robots.kind = "resp" /\ inp.net.robots.status = 404
    /\ inp.net.robots.rules = {"/"} /\ out.robots.ret = TRUE
    /\ Len(out.ret.reqs) >= 2

----------------------------------------------------------------------------
(* Claims about the content extractor, checked under SpecExtract *)

ExtractDone == inp.op = "extract_text_from_url"
\* the page was fetched and parsed: robots allowed, status 200, HTML
PageParsed ==
    /\ ExtractDone /\ ~RobotsForbids(inp.url, inp.net.robots)
    /\ inp.net.page.kind = "resp" /\ inp.net.page.status = 200
    /\ inp.net.page.ctype \in {"text/html", "Text/HTML; charset=UTF-8"}
\* a page whose only content is one paragraph of n letters, no container
\* class and no sectioning element
OnlyParagraph(n) ==
    PageParsed /\ inp.net.page.doc = Soup(<<El("p", Plain, <<TextNode(Str("a", n))>>)>>)
Succeeded == out.ret.error = <<>> /\ out.ret.text # <<>>
NoSubstantialContent ==
    out.ret.error = <<"No substantial content found on page">> /\ out.ret.text = <<>>

\* C9 as stated: for a page whose only content is one paragraph of 60
\* characters the extractor succeeds and returns that paragraph's text, stage
\* c being the one reached.
C9_ParagraphReturned ==
    OnlyParagraph(60) =>
        Succeeded /\ out.ret.text = Str("a", 60) /\ out.ret.stage = "c"

\* C9 as amended: for a page whose only content is one paragraph of more
\* than 50 characters stages a and b are empty and stage c selects the
\* paragraph; the extractor succeeds and returns the paragraph's text (its
\* first 12000 characters) only if it is longer than 100 characters, and for
\* the paragraph of 60 characters it fails with "No substantial content found
\* on page".
C9_ParagraphNeeds100 ==
    \A n \in {51, 60, 100, 101, 12000, 12001} :
        OnlyParagraph(n) =>
            /\ out.ret.stage = "c"
            /\ out.ret.cleaned = Str("a", n)
            /\ n > 100 => Succeeded /\ out.ret.text = Str("a", Min(n, 12000))
            /\ n <= 100 => NoSubstantialContent

C9_Witness == OnlyParagraph(60) /\ out.ret.stage = "c" /\ NoSubstantialContent

\* all the text a reader of the page sees, whitespace collapsed and trimmed
VisibleText(doc) ==
    Strip(CollapseSpace(get_text(Decompose(doc), Str(" ", 1))))

\* C10: the extractor succeeds if and only if the cleaned text is longer
\* than 100 characters, and for every page whose visible text is 100
\* characters or fewer it fails with "No substantial content found on page"
\* and returns no text.
C10_ThinPagesFail ==
    PageParsed =>
        /\ Succeeded <=> StrLen(out.ret.cleaned) > 100
        /\ ~Succeeded => NoSubstantialContent
        /\ StrLen(VisibleText(inp.net.page.doc)) <= 100 => NoSubstantialContent

----------------------------------------------------------------------------
(* Claims about the orchestrator, checked under SpecScrape and, for runs   *)
(* in sequence, under SpecScrapeConc                                       *)

Runs == 1..Len(hist)
Ok(i) == hist[i].resp.code = 200
Writes(i) ==
    LET write(o) == o.op \in {"insert", "update"} IN SelectSeq(hist[i].ops, write)
RowsOf(url) == { r \in store : r.data.website = url }
\* run i is the first successful run for its URL
FirstOk(i) == Ok(i) /\ \A k \in 1..(i - 1) : ~(Ok(k) /\ hist[k].url = hist[i].url)

\* run i was over when run j began
Before(i, j) == i <= hist[j].after
\* the runs for the URL came one after another, none overlapping another
InSequence(url) ==
    \A k \in Runs : \A l \in Runs :
        (k < l /\ hist[k].url = url /\ hist[l].url = url) => Before(k, l)

\* C4: of two successful runs for the same URL made in sequence the first
\* issues exactly one insert, the second exactly one update of the row the
\* first created, both responses carry the same identifier, and the website
\* has a single row.
C4_InsertThenUpdate ==
    \A i \in Runs : \A j \in Runs :
        (/\ i < j /\ FirstOk(i) /\ Ok(j) /\ hist[j].url = hist[i].url
         /\ InSequence(hist[i].url)) =>
            /\ Len(Writes(i)) = 1 /\ Writes(i)[1].op = "insert"
            /\ Len(Writes(j)) = 1 /\ Writes(j)[1].op = "update"
            /\ Writes(j)[1].arg.id = hist[i].resp.body.data.id
            /\ hist[j].resp.body.data.id = hist[i].resp.body.data.id
            /\ Cardinality(RowsOf(hist[i].url)) = 1

C4_Witness ==
    /\ Len(hist) = 2 /\ FirstOk(1) /\ Ok(2) /\ hist[2].url = hist[1].url
    /\ Before(1, 2)
    /\ hist[1].req # hist[2].req
    /\ Writes(2)[1].op = "update"

\* C5: every record handed to the store's insert or update, and every record
\* returned in a success response, has its website field equal to the URL of
\* the request, whatever website the language model's output contained.
C5_WebsiteIsRequestUrl ==
    \A i \in Runs :
        /\ \A k \in 1..Len(Writes(i)) : Writes(i)[k].arg.record.website = hist[i].req.body
        /\ Ok(i) => hist[i].resp.body.data.record.website = hist[i].req.body

LlmSaid(i, site) ==
    \E k \in 1..Len(hist[i].ops) :
        /\ hist[i].ops[k].op = "llm"
        /\ hist[i].ops[k].arg.kind = "resp"
        /\ \E n \in 1..Len(hist[i].ops[k].arg.text) :
              /\ hist[i].ops[k].arg.text[n].t = "members"
              /\ hist[i].ops[k].arg.text[n].v.website = site

C5_Witness ==
    \E i \in Runs : Ok(i) /\ LlmSaid(i, OtherSite) /\ Writes(i)[1].arg.record.website # OtherSite

\* C6: /scrape answers 400 exactly for caller input errors (missing or empty
\* URL), 500 for every processing or collaborator failure (rate limit,
\* robots denial, network error, empty extraction, output without parseable
\* JSON, store failure), and 200 only on success.
C6_StatusByCause ==
    \A i \in Runs :
        /\ hist[i].resp.code = 400 <=> hist[i].stage = "input"
        /\ hist[i].stage \in {"rate", "lookup", "extract", "llm", "json", "store"} =>
               hist[i].resp.code = 500
        /\ hist[i].resp.code = 200 <=>
               hist[i].stage = "ok" /\ hist[i].resp.body.status = "success"

\* p is an initial piece of s, run by run
IsPrefixOf(p, s) ==
    \/ p = <<>>
    \/ /\ Len(p) <= Len(s)
       /\ \A i \in 1..(Len(p) - 1) : p[i] = s[i]
       /\ p[Len(p)].c = s[Len(p)].c
       /\ p[Len(p)].n <= s[Len(p)].n

\* C11: every text a successful extraction returns is at most 12000
\* characters long; it is exactly the first 12000 characters of the cleaned
\* text when that is longer, and the cleaned text unchanged otherwise.
C11_AtMost12000 ==
    (ExtractDone /\ Succeeded) =>
        /\ StrLen(out.ret.text) <= 12000
        /\ StrLen(out.ret.cleaned) > 12000 =>
              StrLen(out.ret.text) = 12000 /\ IsPrefixOf(out.ret.text, out.ret.cleaned)
        /\ StrLen(out.ret.cleaned) <= 12000 => out.ret.text = out.ret.cleaned

C11_Witness ==
    /\ ExtractDone /\ Succeeded
    /\ out.ret.cleaned = Str("a", 11999) \o Str("b", 2)
    /\ out.ret.text = Str("a", 11999) \o Str("b", 1)

----------------------------------------------------------------------------
(* Claims about the language model's output, checked under SpecScrape *)

\* the language model's answer in run i, if the run got that far
LlmAnswers(i) ==
    LET answered(o) == o.op = "llm" /\ o.arg.kind = "resp"
    IN  SelectSeq(hist[i].ops, answered)
\* where the first JSON object of a text starts: an opening brace, members,
\* a closing brace, with no opening brace before it; 0 if there is none
FirstObjectAt(text) ==
    IF \E n \in 1..(Len(text) - 2) :
           /\ text[n] = Open /\ text[n + 1].t = "members" /\ text[n + 2] = Close
           /\ \A m \in 1..(n - 1) : text[m] # Open
      THEN CHOOSE n \in 1..(Len(text) - 2) :
               /\ text[n] = Open /\ text[n + 1].t = "members" /\ text[n + 2] = Close
               /\ \A m \in 1..(n - 1) : text[m] # Open
      ELSE 0

\* C12: the first balanced {...} span of the language model's text is the
\* one parsed: a text holding a JSON object followed by further text with
\* braces still yields that object, and only a text without any JSON object
\* makes the run fail at the language-model or parsing stage.
C12_FirstObjectParsed ==
    \A i \in Runs :
        LlmAnswers(i) # <<>> =>
            LET text == LlmAnswers(i)[1].arg.text
                at == FirstObjectAt(text)
            IN  /\ at > 0 =>
                      /\ hist[i].stage \in {"store", "ok"}
                      /\ Writes(i)[1].arg.record.name = text[at + 1].v.name
                /\ at = 0 => hist[i].stage \in {"llm", "json"}

----------------------------------------------------------------------------
(* Claims about the contact info normalizer, checked under SpecContact *)

ContactDone == inp.op = "clean_contact_info"
PlainAddresses(ci) ==
    { [local |-> ci[j].local, domain |-> ci[j].domain] :
        j \in { k \in 1..Len(ci) : ci[k].t = "mail" /\ ci[k].sep = "@" } }
Obfuscations(ci, a) ==
    { j \in 1..Len(ci) : /\ ci[j].t = "mail" /\ ci[j].sep \in {"[at]", "&#64;"}
                         /\ ci[j].local = a.local /\ ci[j].domain = a.domain }

\* C13: the normalizer returns "Unknown" for an empty or absent input, and
\* for an input holding a plain address together with an obfuscated form of
\* it the output holds no "[at]" or "&#64;" form of that address any more,
\* the plain address standing in its place.
C13_ObfuscationRepaired ==
    ContactDone =>
        /\ inp.ci \in {<<>>, AbsentContact} => out.ret = <<Word("Unknown")>>
        /\ inp.ci # AbsentContact =>
              \A a \in PlainAddresses(inp.ci) :
                  Obfuscations(inp.ci, a) # {} =>
                      /\ Obfuscations(out.ret, a) = {}
                      /\ \E j \in 1..Len(out.ret) :
                             out.ret[j] = Mail(a.local, "@", a.domain)

----------------------------------------------------------------------------
(* Claims about the course of a /scrape run, checked under SpecScrape and *)
(* SpecScrapeConc                                                         *)

\* the collaborator calls of a run by kind, in pipeline order
Rank(o) ==
    CASE o.op = "select" -> 1
      [] o.op = "http" /\ o.arg.url.path = "/robots.txt" -> 2
      [] o.op = "http" /\ o.arg.url.path # "/robots.txt" -> 3
      [] o.op = "llm" -> 4
      [] o.op \in {"insert", "update"} -> 5
CallsOf(i, rank) == { k \in 1..Len(hist[i].ops) : Rank(hist[i].ops[k]) = rank }
ErrorResponse(i) ==
    hist[i].resp.code \in {400, 500} /\ hist[i].resp.body.status = "error"
\* the language model failed or its text holds no pair of braces
LlmUseless(o) ==
    \/ o.arg.kind = "error"
    \/ ~\E m \in 1..Len(o.arg.text), n \in 1..Len(o.arg.text) :
           m < n /\ o.arg.text[m] = Open /\ o.arg.text[n] = Close

\* C14: a failure at any stage of a run (empty URL, rate limit, store
\* lookup, extraction, language model, JSON parsing) ends the run: no later
\* stage runs, no insert or update is issued and an error response is
\* returned; and nothing is retried, a run issuing at most one page fetch, one
\* language-model call and one store write, each stage after the one before.
C14_FailureAborts ==
    \A i \in Runs :
        /\ \A rank \in 1..5 : Cardinality(CallsOf(i, rank)) <= 1
        /\ \A k \in 1..Len(hist[i].ops) : \A l \in 1..Len(hist[i].ops) :
               k < l => Rank(hist[i].ops[k]) < Rank(hist[i].ops[l])
        /\ (~hist[i].req.has_url \/ hist[i].req.body = NoUrl) =>
               hist[i].ops = <<>> /\ ErrorResponse(i)
        /\ hist[i].stage = "rate" => hist[i].ops = <<>> /\ ErrorResponse(i)
        /\ hist[i].stage = "lookup" =>
               /\ hist[i].ops = <<Op("select", [url |-> hist[i].url, result |-> "raise"])>>
               /\ ErrorResponse(i)
        /\ hist[i].stage = "extract" =>
               CallsOf(i, 4) = {} /\ Writes(i) = <<>> /\ ErrorResponse(i)
        /\ hist[i].stage \in {"llm", "json"} => Writes(i) = <<>> /\ ErrorResponse(i)
        /\ \A k \in CallsOf(i, 4) :
               LlmUseless(hist[i].ops[k]) => Writes(i) = <<>> /\ ErrorResponse(i)
        /\ CallsOf(i, 3) = {} => CallsOf(i, 4) = {} /\ Writes(i) = <<>>
        /\ ErrorResponse(i) \/ Ok(i)

C14_Witness ==
    \E i \in Runs :
        /\ hist[i].stage = "llm" /\ Len(hist[i].ops) = 4
        /\ hist[i].ops[4].arg.kind = "error"
        /\ hist[i].resp.code = 500
        /\ i > 1 /\ Ok(i - 1) /\ hist[i - 1].url = hist[i].url
        /\ Cardinality(store) = 1

\* a row for the URL of run i was in the store when the run began: an
\* earlier run for the URL succeeded
ExistedBefore(i) == \E k \in 1..(i - 1) : Ok(k) /\ hist[k].url = hist[i].url
IdBefore(i) ==
    hist[CHOOSE k \in 1..(i - 1) : Ok(k) /\ hist[k].url = hist[i].url].resp.body.data.id
\* the identifiers the lookup of run i returned
Looked(i) == hist[i].ops[1].arg.result

\* C15: a run that reaches the store write issues exactly one update of the
\* existing record's identifier, no insert and no creation timestamp if the
\* lookup found a record for the website, and otherwise exactly one insert of
\* a record with a creation timestamp; an empty result from the store is
\* answered as a failure, never as success.  When the runs for the website
\* come in sequence the lookup finds the record exactly if an earlier run
\* stored one.
C15_UpdateOrInsert ==
    \A i \in Runs :
        hist[i].stage \in {"store", "ok"} =>
            /\ Len(Writes(i)) = 1
            /\ hist[i].ops[1].op = "select" /\ hist[i].ops[1].arg.url = hist[i].url
            /\ Looked(i) # <<>> =>
                  /\ Writes(i)[1].op = "update"
                  /\ Writes(i)[1].arg.id = Looked(i)[1]
                  /\ Writes(i)[1].arg.record.created_at = "absent"
            /\ Looked(i) = <<>> =>
                  /\ Writes(i)[1].op = "insert"
                  /\ Writes(i)[1].arg.record.created_at = "now()"
            /\ InSequence(hist[i].url) =>
                  /\ Looked(i) # <<>> <=> ExistedBefore(i)
                  /\ ExistedBefore(i) => Looked(i) = <<IdBefore(i)>>
            /\ Writes(i)[1].arg.result = "empty" =>
                  /\ ~Ok(i) /\ hist[i].resp.code = 500
                  /\ hist[i].resp.body.status = "error"
            /\ Writes(i)[1].arg.result = "rows" => Ok(i)

C15_Witness ==
    \E i \in Runs :
        /\ ExistedBefore(i) /\ hist[i].stage = "store"
        /\ Writes(i)[1].op = "update" /\ Writes(i)[1].arg.result = "empty"
        /\ Writes(i)[1].arg.record.created_at = "absent"
        /\ hist[i].resp.body.message =
               <<"Data processing failed: ", "Failed to ", "updated", " data in Supabase">>

----------------------------------------------------------------------------
(* Further claims about the site permission evaluator, checked under       *)
(* SpecPerm                                                                *)

\* robots, the rate-limit header, the status and the content type all pass
ChecksPassed ==
    /\ PermDone /\ ~RobotsForbids(inp.url, inp.net.robots)
    /\ inp.net.head.kind = "resp" /\ inp.net.head.remaining \in {"absent", "5"}
    /\ inp.net.head.status = 200
    /\ inp.net.head.ctype \in {"text/html", "Text/HTML; charset=UTF-8"}
TosPathList == <<"/terms", "/tos", "/terms-of-service", "/terms-and-conditions">>
Answers200(resp) == resp.kind = "resp" /\ resp.status = 200
\* the first terms-of-service path that answers 200, 5 if none does
FirstTos ==
    IF \E k \in 1..4 : Answers200(inp.net.tos[k])
      THEN CHOOSE k \in 1..4 : /\ Answers200(inp.net.tos[k])
                               /\ \A l \in 1..(k - 1) : ~Answers200(inp.net.tos[l])
      ELSE 5
\* the requests the evaluator issued after the probe of the URL itself
TosProbes == SubSeq(out.ret.reqs, 3, Len(out.ret.reqs))

\* C16: once robots, the rate-limit header, the status and the content type
\* have passed the evaluator returns allowed = true: it probes /terms, /tos,
\* /terms-of-service and /terms-and-conditions in that order up to the first
\* that answers 200, returns the warning naming that path, or "All permission
\* checks passed" when none answers 200, and no error or other status on a
\* terms-of-service probe makes it deny.
C16_TosNeverBlocks ==
    ChecksPassed =>
        /\ out.ret.allowed = TRUE
        /\ Len(TosProbes) = (IF FirstTos = 5 THEN 4 ELSE FirstTos)
        /\ \A k \in 1..Len(TosProbes) :
               TosProbes[k] =
                   [method |-> "HEAD",
                    url |-> [scheme |-> inp.url.scheme, netloc |-> inp.url.netloc,
                             path |-> TosPathList[k]]]
        /\ FirstTos = 5 => out.ret.reason = <<"All permission checks passed">>
        /\ FirstTos < 5 =>
               out.ret.reason =
                   <<"Warning: Please review Terms of Service at ",
                     [scheme |-> inp.url.scheme, netloc |-> inp.url.netloc,
                      path |-> TosPathList[FirstTos]]>>

C16_Witness ==
    /\ ChecksPassed /\ FirstTos = 3
    /\ inp.net.tos[1].kind = "error" /\ inp.net.tos[2] = [kind |-> "resp", status |-> 404]
    /\ Answers200(inp.net.tos[4])
    /\ out.ret.allowed = TRUE /\ Len(TosProbes) = 3

NumericRemaining == {"5", "0", "-1"}

\* C17: the evaluator always returns a decision (allowed, reason); an error
\* of the network on the probe of the URL gives (false, "Network error during
\* permission check: ..."), any other failure inside it, such as a rate-limit
\* header that is no number, gives (false, "Permission check error: ..."),
\* and every error outcome is a denial.
C17_TotalAndDenying ==
    PermDone =>
        /\ out.ret.allowed \in BOOLEAN
        /\ Len(out.ret.reason) >= 1
        /\ (~RobotsForbids(inp.url, inp.net.robots) /\ inp.net.head.kind = "error") =>
               /\ out.ret.allowed = FALSE
               /\ out.ret.reason =
                      <<"Network error during permission check: ", inp.net.head.detail>>
        /\ (/\ ~RobotsForbids(inp.url, inp.net.robots)
            /\ inp.net.head.kind = "resp"
            /\ inp.net.head.remaining \notin NumericRemaining \cup {"absent"}) =>
               /\ out.ret.allowed = FALSE
               /\ out.ret.reason[1] = "Permission check error: "
        /\ out.ret.reason[1] \in {"Network error during permission check: ",
                                 "Permission check error: "} =>
               out.ret.allowed = FALSE
        /\ out.ret.allowed = TRUE => ChecksPassed

C17_Witness ==
    /\ PermDone /\ inp.net.robots.kind = "error"
    /\ inp.net.head.kind = "resp" /\ inp.net.head.remaining = "soon"
    /\ inp.net.head.status = 200 /\ inp.net.head.ctype = "text/html"
    /\ Answers200(inp.net.tos[1])
    /\ out.ret.allowed = FALSE /\ out.ret.reason[1] = "Permission check error: "

----------------------------------------------------------------------------
(* Further claims about the content extractor, checked under SpecExtract *)

\* what each stage yields on the parsed page, in the order a, b, c, d, e
StageYields(doc) ==
    LET soup == Decompose(doc)
    IN  <<StageA(soup), StageB(soup), StageC(soup), StageD(soup), StageE(soup)>>
StageNames == <<"a", "b", "c", "d", "e">>
\* the first position of a sequence that holds something, 0 if none does
FirstYielding(ys) ==
    IF \E k \in 1..Len(ys) : ys[k] # <<>>
      THEN CHOOSE k \in 1..Len(ys) : ys[k] # <<>> /\ \A l \in 1..(k - 1) : ys[l] = <<>>
      ELSE 0

\* C18: the cascade uses the first stage, in the order a, b, c, d, e, that
\* yields anything, a stage counting only if every earlier one yielded
\* nothing, and the text put out is the text of that one stage.
C18_FirstStageOnly ==
    PageParsed =>
        LET ys == StageYields(inp.net.page.doc)
            k == FirstYielding(ys)
        IN  /\ k = 0 => out.ret.stage = "none" /\ NoSubstantialContent
            /\ k > 0 =>
                  /\ out.ret.stage = StageNames[k]
                  /\ out.ret.cleaned =
                         Strip(ReplaceNewlines(CollapseSpace(Join(ys[k], Str(" ", 1)))))

\* an article and a paragraph side by side: stage a takes the article, and
\* the paragraph, which stage c would take, stays out
C18_Witness ==
    /\ PageParsed
    /\ inp.net.page.doc = Soup(<<El("article", Plain, <<TextNode(Str("a", 101))>>),
                                 El("p", Plain, <<TextNode(Str("b", 101))>>)>>)
    /\ out.ret.stage = "a" /\ out.ret.text = Str("a", 101)

PageRequest == [method |-> "GET", url |-> inp.url]
RobotsTxtRequest ==
    [method |-> "GET",
     url |-> [scheme |-> inp.url.scheme, netloc |-> inp.url.netloc, path |-> "/robots.txt"]]
Issued(rq) == \E k \in 1..Len(out.ret.reqs) : out.ret.reqs[k] = rq

\* C19: the extractor asks the robots checker before it fetches: when
\* robots.txt disallows the URL the call fails with "Scraping disallowed by
\* robots.txt" and the page itself is never requested; a page request is only
\* ever issued after the robots.txt request, the checker having allowed.
C19_RobotsBeforeFetch ==
    ExtractDone =>
        /\ RobotsForbids(inp.url, inp.net.robots) =>
              /\ out.ret.error = <<"Scraping disallowed by robots.txt">>
              /\ out.ret.text = <<>>
              /\ ~Issued(PageRequest)
        /\ Issued(PageRequest) =>
              /\ ~RobotsForbids(inp.url, inp.net.robots)
              /\ out.ret.reqs = <<RobotsTxtRequest, PageRequest>>

C19_Witness ==
    /\ ExtractDone /\ inp.net.robots = [kind |-> "resp", status |-> 200, rules |-> {"/x"}]
    /\ inp.url.path = "/x"
    /\ inp.net.page.kind = "resp" /\ inp.net.page.status = 200
    /\ inp.net.page.doc = LongDoc /\ inp.net.page.ctype = "text/html"
    /\ out.ret.error = <<"Scraping disallowed by robots.txt">>
    /\ out.ret.reqs = <<RobotsTxtRequest>>

----------------------------------------------------------------------------
(* Claim about overlapping /scrape runs, checked under SpecScrapeConc *)

\* the runs whose insert for a website the store accepted
InsertedBy(url) ==
    { i \in Runs : /\ Ok(i) /\ hist[i].url = url
                   /\ \E k \in 1..Len(hist[i].ops) : hist[i].ops[k].op = "insert" }

\* C20: when two runs for one URL that is not yet in the store overlap, at
\* most one of them inserts and the other updates under every interleaving:
\* the store never takes two inserts for one website, so it holds at most one
\* row for it.
C20_OneInsertPerWebsite ==
    \A url \in ScrapeUrls :
        /\ Cardinality(InsertedBy(url)) <= 1
        /\ Cardinality(RowsOf(url)) <= 1

----------------------------------------------------------------------------
(* Claim about the rate limiter's entries, checked under SpecScrapeHosts *)

\* the entry of a host: its count and window start, NoDict if it has none
Entry(h) == IF rate_limits[h] = NoObj THEN NoDict ELSE heap[rate_limits[h]]
\* the run a step has just added to the history
Served(i) == Len(hist) = i - 1 /\ Len(hist') = i
\* C21: the rate limiter's state is per host.  A step changes the entry of a
\* host only if the thread taking it is serving a URL of that host, every
\* other host's entry stays as it was, and a run is refused only on account
\* of the calls made for its own host in the window, whatever the other
\* host's count; a run rejected for a missing or empty URL changes no entry
\* at all.
C21_PerHostFrame ==
    [][ /\ \A h \in Hosts :
              Entry(h)' # Entry(h) =>
                  \E t \in Threads : thr'[t] # thr[t] /\ inp[t].url.netloc = h
        /\ \A i \in 1..MaxRuns :
              Served(i) =>
                  /\ hist'[i].stage = "input" =>
                        /\ hist'[i].url.netloc = ""
                        /\ rate_limits' = rate_limits /\ heap' = heap /\ thr' = thr
                  /\ hist'[i].stage = "rate" =>
                        specCalls[hist'[i].url.netloc] > RateLimit ]_vars

\* host a.example has used up its quota and is refused, host b.example is
\* served right after
C21_Witness ==
    /\ Len(hist) = 2
    /\ hist[1].url.netloc = "a.example" /\ hist[1].stage = "rate"
    /\ hist[2].url.netloc = "b.example" /\ hist[2].stage = "ok"
    /\ Entry("a.example") = [count |-> 61, reset_time |-> 0]
    /\ Entry("b.example") = [count |-> 1, reset_time |-> 0]

====
